---------------------------- MODULE Spec2Model ----------------------------
(***************************************************************************)
(* CozyClean backend: the sync-upload transaction (api/v1/sync.py), the    *)
(* login lookup-or-create (api/v1/auth.py), the token codec                *)
(* (core/security.py) and the authentication gate (api/deps.py), over the  *)
(* relational store declared in models/base.py.                            *)
(*                                                                         *)
(* The store is PostgreSQL under READ COMMITTED: a request's INSERTs and   *)
(* UPDATEs stay private to its transaction until COMMIT publishes all of   *)
(* them at once; ROLLBACK discards them; an INSERT whose unique key is     *)
(* held by another transaction's uncommitted row waits for that            *)
(* transaction to end.  A statement or a COMMIT that fails leaves nothing  *)
(* of the transaction in the store.                                        *)
(*                                                                         *)
(* Requests are served by independent workers, so the steps of two         *)
(* requests interleave at every database round trip.                       *)
(***************************************************************************)
EXTENDS Integers, Sequences, FiniteSets, TLC

VARIABLES
    users,       \* committed rows of table users
    sessions,    \* committed rows of table sync_session_logs
    actions,     \* committed rows of table sync_photo_actions
    action_seq,  \* last value handed out by the BIGSERIAL of action_id
    now,         \* wall clock, in ticks
    hits,        \* logins counted by the limiter in the current window
    upl,         \* the sync_upload calls, by request
    lgn,         \* the login calls, by request
    issued,      \* tokens create_access_token has returned, with issue time
    gate,        \* the last outcome of get_current_user
    rejections   \* the distinct error responses get_current_user has raised

vars == <<users, sessions, actions, action_seq, now, hits, upl, lgn,
          issued, gate, rejections>>

(***************************************************************************)
(* Bounds of the model.                                                    *)
(***************************************************************************)
\* ticks of the clock per second: the clock is finer than the token's exp
TicksPerSecond == 2
\* longest batch of actions in one upload
MaxActions == 2
\* ticks the clock may advance besides the jump over the default TTL
MaxTicks == 4
\* tokens create_access_token is called for in the token specification
MaxIssued == 1
\* ticks the clock advances while logins are served
MaxLoginTicks == 1

None == "None"

(***************************************************************************)
(* core/config.py                                                          *)
(***************************************************************************)
SECRET_KEY == "change-me-to-a-random-secret-key"
ALGORITHM == "HS256"
ACCESS_TOKEN_EXPIRE_MINUTES == 1440

(***************************************************************************)
(* UUIDs and their text form: str(uid) and UUID(uid_str).                  *)
(***************************************************************************)
UUIDs == {"U1", "U2"}

UuidStr(u) ==
    CASE u = "U1" -> "11111111-1111-4111-8111-111111111111"
      [] u = "U2" -> "22222222-2222-4222-8222-222222222222"

ValueError == "ValueError"

\* UUID(uid_str): the uid whose text form this is, or ValueError
ParseUUID(s) ==
    IF \E u \in UUIDs : UuidStr(u) = s
    THEN CHOOSE u \in UUIDs : UuidStr(u) = s
    ELSE ValueError


(***************************************************************************)
(* python-jose, as core/security.py and api/deps.py call it.  A compact    *)
(* token is its three segments: the algorithm of the header, the claims of *)
(* the payload, and the key the signature was made with.  compact is FALSE *)
(* for a string that does not split into three segments.                   *)
(***************************************************************************)
\* jwt.encode turns a datetime claim into whole seconds since the epoch
\* (timegm of its utctimetuple): the fraction of a second is dropped
IntDate(ticks) == ticks \div TicksPerSecond

jwt_encode(claims, key, algorithm) ==
    [compact |-> TRUE, alg |-> algorithm,
     claims |-> [sub |-> claims.sub, exp |-> IntDate(claims.exp)],
     key |-> key]

JWTError == "JWTError"

\* jwt.decode: the signature, then the exp claim against the current whole
\* second ("exp < now": the second named by exp is still accepted)
jwt_decode(token, key, algorithms, t) ==
    IF ~token.compact \/ token.alg \notin algorithms \/ token.key # key
    THEN [err |-> JWTError, claims |-> token.claims]
    ELSE IF token.claims.exp < IntDate(t)
    THEN [err |-> JWTError, claims |-> token.claims]
    ELSE [err |-> None, claims |-> token.claims]

(***************************************************************************)
(* core/security.py                                                        *)
(***************************************************************************)
\* expires_delta is Optional[timedelta]: {} is None, {d} a timedelta of d
\* ticks.  "if expires_delta" is false for None and for timedelta(0).
DefaultTtl == ACCESS_TOKEN_EXPIRE_MINUTES * 60 * TicksPerSecond

create_access_token(data, expires_delta, t) ==
    LET expire == IF expires_delta # {} /\ expires_delta # {0}
                  THEN t + (CHOOSE d \in expires_delta : TRUE)
                  ELSE t + DefaultTtl
    IN  jwt_encode([sub |-> data.sub, exp |-> expire], SECRET_KEY, ALGORITHM)

\* base64.b64encode(phone.encode("utf-8")).decode("utf-8")
encrypt_phone(phone) ==
    CASE phone = "+8613800000000" -> "Kzg2MTM4MDAwMDAwMDA="
      [] phone = "+8613900000000" -> "Kzg2MTM5MDAwMDAwMDA="

(***************************************************************************)
(* api/deps.py                                                             *)
(***************************************************************************)
HTTP_401_UNAUTHORIZED == 401

HTTPException(status_code, detail, headers) ==
    [status_code |-> status_code, detail |-> detail, headers |-> headers]

NoException == HTTPException(0, "", {})

Lower(scheme) ==
    CASE scheme = "Bearer" -> "bearer"
      [] scheme = "BEARER" -> "bearer"
      [] scheme = "Basic" -> "basic"
      [] OTHER -> scheme

\* OAuth2PasswordBearer(tokenUrl=...), auto_error left at its default: the
\* credentials of "Authorization: Bearer <credentials>", or its own 401
oauth2_scheme(authorization) ==
    IF ~authorization.present \/ Lower(authorization.scheme) # "bearer"
    THEN [ok |-> FALSE, token |-> authorization.credentials,
          exc |-> HTTPException(HTTP_401_UNAUTHORIZED, "Not authenticated",
                                {<<"WWW-Authenticate", "Bearer">>})]
    ELSE [ok |-> TRUE, token |-> authorization.credentials,
          exc |-> NoException]

\* the source's detail strings are Chinese; they are written here in ASCII
credentials_exception ==
    HTTPException(HTTP_401_UNAUTHORIZED,
                  "cannot verify credentials, please log in again",
                  {<<"WWW-Authenticate", "Bearer">>})

Raise(exc) == [ok |-> FALSE, uid |-> None, exc |-> exc]

get_current_user(authorization, t) ==
    LET dep == oauth2_scheme(authorization)
        payload == jwt_decode(dep.token, SECRET_KEY, {ALGORITHM}, t)
        uid_str == payload.claims.sub
    IN  IF ~dep.ok THEN Raise(dep.exc)
        ELSE IF payload.err # None THEN Raise(credentials_exception)
        ELSE IF uid_str = None THEN Raise(credentials_exception)
        ELSE IF ParseUUID(uid_str) = ValueError
        THEN Raise(credentials_exception)
        ELSE [ok |-> TRUE, uid |-> ParseUUID(uid_str), exc |-> NoException]

(***************************************************************************)
(* schemas/sync.py                                                         *)
(***************************************************************************)
\* a field the JSON body leaves out
Missing == "<missing>"

\* PhotoActionSchema: md5 of exactly 32 characters, action_source of at most
\* 10, "ANDROID" when left out
ValidPhotoAction(raw) ==
    /\ Len(raw.md5) = 32
    /\ raw.action_source = Missing \/ Len(raw.action_source) <= 10

PhotoActionSchema(raw) ==
    [md5 |-> raw.md5, action_type |-> raw.action_type,
     action_source |-> IF raw.action_source = Missing THEN "ANDROID"
                       ELSE raw.action_source]

\* SyncRequest: session_id of at most 64 characters, every action valid
ValidSyncRequest(raw) ==
    /\ Len(raw.session_id) <= 64
    /\ \A i \in 1..Len(raw.actions) : ValidPhotoAction(raw.actions[i])

SyncRequest(raw) ==
    [session_id |-> raw.session_id, mode |-> raw.mode,
     actions |-> [i \in 1..Len(raw.actions) |->
                    PhotoActionSchema(raw.actions[i])]]

SyncResponse(status, synced_count) ==
    [status |-> status, synced_count |-> synced_count]

(***************************************************************************)
(* models/base.py.  created_at (server_default now()) is set by the store  *)
(* and read by no operation; it is left out of the rows.                   *)
(***************************************************************************)
Users(uid, phone_number, last_login_at) ==
    [uid |-> uid, phone_number |-> phone_number, is_pro |-> FALSE,
     current_energy |-> 50, total_saved_bytes |-> 0,
     total_deleted_count |-> 0, last_login_at |-> last_login_at]

SyncSessionLogs(session_id, uid, mode, deleted_count) ==
    [session_id |-> session_id, uid |-> uid, mode |-> mode,
     deleted_count |-> deleted_count, saved_bytes |-> 0,
     start_time |-> None, device_id |-> None]

SyncPhotoActions(uid, photo_md5, action_type, action_source) ==
    [uid |-> uid, photo_md5 |-> photo_md5, action_type |-> action_type,
     action_source |-> action_source]

\* the row INSERT stores for a SyncPhotoActions object: action_id from the
\* BIGSERIAL
ActionRow(obj, action_id) ==
    [action_id |-> action_id, uid |-> obj.uid, photo_md5 |-> obj.photo_md5,
     action_type |-> obj.action_type, action_source |-> obj.action_source]

\* a SmallInteger column
SmallInt(n) == n >= -32768 /\ n <= 32767

\* a users table without the unique constraint on phone_number
PhoneNeverTaken(phone_number, rows) == FALSE

\* users.phone_number is unique
PhoneTaken(phone_number, rows) ==
    \E u \in rows : u.phone_number = phone_number

\* a sync_session_logs without its primary key
SessionIdNeverTaken(session_id, rows) == FALSE

\* sync_session_logs.session_id is the primary key
SessionIdTaken(session_id, rows) ==
    \E s \in rows : s.session_id = session_id

\* ForeignKey("users.uid")
UserExists(uid) == \E u \in users : u.uid = uid

\* what str(e) shows of a failed statement
DataError ==
    "(psycopg2.errors.NumericValueOutOfRange) smallint out of range"
UniqueViolation ==
    "(psycopg2.errors.UniqueViolation) duplicate key value violates unique constraint"
ForeignKeyViolation ==
    "(psycopg2.errors.ForeignKeyViolation) insert or update violates foreign key constraint"
OperationalError ==
    "(psycopg2.OperationalError) server closed the connection unexpectedly"

Phones == {"+8613800000000", "+8613900000000"}

PhoneOf(u) == IF u = "U1" THEN "+8613800000000" ELSE "+8613900000000"

(***************************************************************************)
(* Requests and what they carry.                                           *)
(***************************************************************************)
Reqs == {"r1", "r2"}

Bearer(token) == [present |-> TRUE, scheme |-> "Bearer", credentials |-> token]

\* a string that is no compact token
Garbage ==
    [compact |-> FALSE, alg |-> "", claims |-> [sub |-> None, exp |-> 0],
     key |-> ""]

NoHeader == [present |-> FALSE, scheme |-> "", credentials |-> Garbage]

\* the token login hands to user u at time t
LoginToken(u, t) == create_access_token([sub |-> UuidStr(u)], {}, t)

Md5A == "aaaaaaaaaaaaaaaaaaaaaaaaaaaaaaaa"
Md5B == "bbbbbbbbbbbbbbbbbbbbbbbbbbbbbbbb"
Md5Short == "ccccccccccccccccccccccccccccccc"

\* the actions a client sends: a delete that leaves action_source out and a
\* keep from iOS; and two the store or the schema refuses: an action_type
\* no SMALLINT holds, a fingerprint of 31 characters
GoodActions ==
    { [md5 |-> Md5A, action_type |-> 1, action_source |-> Missing],
      [md5 |-> Md5B, action_type |-> 0, action_source |-> "IOS"] }

BadActions ==
    { [md5 |-> Md5B, action_type |-> 32768, action_source |-> "IOS"],
      [md5 |-> Md5Short, action_type |-> 1, action_source |-> "ANDROID"] }

\* every sequence of good actions, and each of them cut short by a bad one
Batches ==
    LET good(n) == [1..n -> GoodActions]
    IN  UNION { good(n) : n \in 0..MaxActions }
        \cup UNION { { Append(b, x) : b \in good(n), x \in BadActions } :
                     n \in 0..(MaxActions - 1) }

RawBodies ==
    [session_id : {"s1", "s2"}, mode : {0, 1}, actions : Batches]

Authorizations == { Bearer(LoginToken(u, 0)) : u \in UUIDs } \cup {NoHeader}

\* Requests are named in their order of arrival, and users and session ids
\* after the first request that names them: r1 comes from U1 with s1.
Arrived(r) == r = "r1" \/ upl["r1"].pc # "idle"

AuthorizationsOf(r) ==
    IF r = "r1" THEN {Bearer(LoginToken("U1", 0)), NoHeader}
    ELSE Authorizations

RawBodiesOf(r) ==
    IF r = "r1" THEN { b \in RawBodies : b.session_id = "s1" }
    ELSE RawBodies

(***************************************************************************)
(* api/v1/sync.py: sync_upload.  One call is the steps between its         *)
(* database round trips: the dependencies and the staging (sync_upload),   *)
(* the two INSERTs of the flush that db.commit() starts (FlushSessionLog,  *)
(* FlushPhotoActions, in the order the unit of work sorts the two          *)
(* unrelated tables), and the COMMIT (Commit).  A step that raises runs    *)
(* the except branch with it.                                              *)
(***************************************************************************)
HTTP_200_OK == 200
HTTP_422_UNPROCESSABLE_ENTITY == 422
HTTP_500_INTERNAL_SERVER_ERROR == 500

Response(status_code, detail, headers, body) ==
    [status_code |-> status_code, detail |-> detail, headers |-> headers,
     body |-> body]

NoBody == SyncResponse("", 0)

NoUpload ==
    [pc |-> "idle", authorization |-> NoHeader, uid |-> None,
     body |-> [session_id |-> "", mode |-> 0, actions |-> <<>>],
     session_log |-> SyncSessionLogs("", None, 0, 0),
     photo_actions |-> <<>>, sess_flushed |-> FALSE, ids |-> <<>>,
     e |-> None, resp |-> Response(0, "", {}, NoBody)]

\* a deleted_count that counts every action of the batch
deleted_count_all(acts) == Len(acts)

\* sum(1 for a in body.actions if a.action_type == 1)
RECURSIVE deleted_count(_)
deleted_count(acts) ==
    IF acts = <<>> THEN 0
    ELSE (IF Head(acts).action_type = 1 THEN 1 ELSE 0)
         + deleted_count(Tail(acts))

\* photo actions built without action_source: the column's default fills it
photo_actions_default_source(uid, body) ==
    [i \in 1..Len(body.actions) |->
        SyncPhotoActions(uid, body.actions[i].md5,
                         body.actions[i].action_type, "ANDROID")]

\* [SyncPhotoActions(uid=uid, ...) for action in body.actions]
photo_actions(uid, body) ==
    [i \in 1..Len(body.actions) |->
        SyncPhotoActions(uid, body.actions[i].md5,
                         body.actions[i].action_type,
                         body.actions[i].action_source)]

\* the rows a call's transaction holds and has not committed
PendingSessions(r) ==
    IF upl[r].pc = "flush" /\ upl[r].sess_flushed
    THEN {upl[r].session_log} ELSE {}

PendingActions(r) ==
    IF upl[r].pc = "flush"
    THEN { ActionRow(upl[r].photo_actions[i], upl[r].ids[i]) :
             i \in 1..Len(upl[r].ids) }
    ELSE {}

OthersPendingSessions(r) == UNION { PendingSessions(q) : q \in Reqs \ {r} }

\* lines 73-79: db.rollback() drops what the transaction holds, and the
\* HTTPException carries str(e)
Rollback(call, e) ==
    [call EXCEPT !.pc = "done", !.e = e, !.sess_flushed = FALSE,
                 !.ids = <<>>,
                 !.resp = Response(HTTP_500_INTERNAL_SERVER_ERROR,
                                   "sync failed, please retry later: " \o e,
                                   {}, NoBody)]

\* the dependencies (get_current_user, the body's validation) and lines
\* 40-63: the session log and the photo actions are added to the session;
\* nothing is sent to the store yet (autoflush=False)
sync_upload(r, authorization, raw) ==
    /\ upl[r].pc = "idle"
    /\ Arrived(r)
    /\ LET user == get_current_user(authorization, now)
           body == SyncRequest(raw)
       IN  upl' = [upl EXCEPT ![r] =
             IF ~user.ok
             THEN [@ EXCEPT !.pc = "done", !.authorization = authorization,
                            !.resp = Response(user.exc.status_code,
                                              user.exc.detail,
                                              user.exc.headers, NoBody)]
             ELSE IF ~ValidSyncRequest(raw)
             THEN [@ EXCEPT !.pc = "done", !.authorization = authorization,
                            !.resp = Response(HTTP_422_UNPROCESSABLE_ENTITY,
                                              "validation error", {}, NoBody)]
             ELSE [@ EXCEPT !.pc = "flush", !.authorization = authorization,
                            !.uid = user.uid, !.body = body,
                            !.session_log =
                                SyncSessionLogs(body.session_id, user.uid,
                                                body.mode,
                                                deleted_count(body.actions)),
                            !.photo_actions = photo_actions(user.uid, body)]]
    /\ UNCHANGED <<users, sessions, actions, action_seq, now, hits, lgn,
                   issued, gate, rejections>>

\* a sync_session_logs whose uid is unique as well
InsertSessionErrorUniqueUid(row) ==
    IF ~SmallInt(row.mode) THEN DataError
    ELSE IF SessionIdTaken(row.session_id, sessions)
            \/ \E s \in sessions : s.uid = row.uid THEN UniqueViolation
    ELSE IF ~UserExists(row.uid) THEN ForeignKeyViolation
    ELSE None

\* the error INSERT INTO sync_session_logs ends with, None when it succeeds
InsertSessionError(row) ==
    IF ~SmallInt(row.mode) THEN DataError
    ELSE IF SessionIdTaken(row.session_id, sessions) THEN UniqueViolation
    ELSE IF ~UserExists(row.uid) THEN ForeignKeyViolation
    ELSE None

\* the first row INSERT INTO sync_photo_actions fails on, 0 when none
FailingRow(objs) ==
    LET bad == { i \in 1..Len(objs) :
                   ~SmallInt(objs[i].action_type) \/ ~UserExists(objs[i].uid) }
    IN  IF bad = {} THEN 0
        ELSE CHOOSE i \in bad : \A j \in bad : i <= j

InsertActionError(obj) ==
    IF ~SmallInt(obj.action_type) THEN DataError ELSE ForeignKeyViolation

\* a session that commits every statement as it is sent (autocommit)
FlushSessionLogAutocommit(r) ==
    /\ upl[r].pc = "flush"
    /\ ~upl[r].sess_flushed
    /\ LET err == InsertSessionError(upl[r].session_log)
       IN  /\ upl' = [upl EXCEPT ![r] =
                IF err # None THEN Rollback(@, err)
                ELSE [@ EXCEPT !.sess_flushed = TRUE]]
           /\ sessions' = IF err # None THEN sessions
                          ELSE sessions \cup {upl[r].session_log}
    /\ UNCHANGED <<users, actions, action_seq, now, hits, lgn, issued, gate,
                   rejections>>

\* db.commit(), the flush: INSERT INTO sync_session_logs.  It waits while
\* another transaction holds an uncommitted row with the same session_id.
FlushSessionLog(r) ==
    /\ upl[r].pc = "flush"
    /\ ~upl[r].sess_flushed
    /\ ~SessionIdTaken(upl[r].session_log.session_id, OthersPendingSessions(r))
    /\ LET err == InsertSessionError(upl[r].session_log)
       IN  upl' = [upl EXCEPT ![r] =
             IF err # None THEN Rollback(@, err)
             ELSE [@ EXCEPT !.sess_flushed = TRUE]]
    /\ UNCHANGED <<users, sessions, actions, action_seq, now, hits, lgn,
                   issued, gate, rejections>>

\* db.commit(), the flush: INSERT INTO sync_photo_actions, all rows of the
\* batch in one statement, each action_id from the BIGSERIAL.  nextval is
\* not undone by a rollback.
FlushPhotoActions(r) ==
    /\ upl[r].pc = "flush"
    /\ Len(upl[r].ids) < Len(upl[r].photo_actions)
    /\ LET objs == upl[r].photo_actions
           k == FailingRow(objs)
       IN  IF k # 0
           THEN /\ upl' = [upl EXCEPT ![r] =
                              Rollback(@, InsertActionError(objs[k]))]
                /\ action_seq' = action_seq + (k - 1)
           ELSE /\ upl' = [upl EXCEPT ![r] =
                    [@ EXCEPT !.ids = [i \in 1..Len(objs) |-> action_seq + i]]]
                /\ action_seq' = action_seq + Len(objs)
    /\ UNCHANGED <<users, sessions, actions, now, hits, lgn, issued, gate,
                   rejections>>

\* db.commit(), the COMMIT, and lines 68-71
Commit(r) ==
    /\ upl[r].pc = "flush"
    /\ upl[r].sess_flushed
    /\ Len(upl[r].ids) = Len(upl[r].photo_actions)
    /\ sessions' = sessions \cup PendingSessions(r)
    /\ actions' = actions \cup PendingActions(r)
    /\ upl' = [upl EXCEPT ![r] =
          [@ EXCEPT !.pc = "done",
                    !.resp = Response(HTTP_200_OK, "", {},
                               SyncResponse("ok", Len(upl[r].body.actions)))]]
    /\ UNCHANGED <<users, action_seq, now, hits, lgn, issued, gate,
                   rejections>>

\* the connection to the store is lost under a statement or the COMMIT:
\* the store aborts the transaction
ConnectionLost(r) ==
    /\ upl[r].pc = "flush"
    /\ upl' = [upl EXCEPT ![r] = Rollback(@, OperationalError)]
    /\ UNCHANGED <<users, sessions, actions, action_seq, now, hits, lgn,
                   issued, gate, rejections>>

(***************************************************************************)
(* schemas/auth.py and api/v1/auth.py: login.  The limiter's decorator     *)
(* answers a request over the limit itself (RateLimited); login runs for   *)
(* the others.  One call is the steps between its database round trips:    *)
(* the code check and the SELECT (login), then for a phone the SELECT did  *)
(* not find the INSERT (InsertUser) and the COMMIT (CommitUser), for one   *)
(* it found the UPDATE with its COMMIT (UpdateLastLogin).  login catches   *)
(* no exception: one raised by the store ends the request with the         *)
(* server's 500, and get_db closes the session, which rolls back.          *)
(***************************************************************************)
HTTP_400_BAD_REQUEST == 400
HTTP_429_TOO_MANY_REQUESTS == 429

\* @limiter.limit("3/minute")
LoginLimit == 3

UserResponse(uid, is_pro) == [uid |-> uid, is_pro |-> is_pro]

LoginResponse(token, user) == [token |-> token, user |-> user]

NoLoginBody == LoginResponse(Garbage, UserResponse(None, FALSE))

NoLogin ==
    [pc |-> "idle", entered |-> FALSE, phone |-> "", code |-> "",
     encrypted_phone |-> "", uid |-> None,
     resp |-> Response(0, "", {}, NoLoginBody)]

Codes == {"1234", "0000"}

\* a login that takes any code that was sent
AnyCode(code) == code # ""

\* body.code != "1234" is the mismatch
CodeMatches(code) == code = "1234"

\* the user rows other logins have inserted and not committed
PendingUsers(r) ==
    IF lgn[r].pc = "inserted"
    THEN {Users(lgn[r].uid, lgn[r].encrypted_phone, 0)} ELSE {}

OthersPendingUsers(r) == UNION { PendingUsers(q) : q \in Reqs \ {r} }

\* the limiter counts the request and finds its window full: slowapi
\* answers 429 and login is not called
RateLimited(r) ==
    /\ lgn[r].pc = "idle"
    /\ hits >= LoginLimit
    /\ hits' = LoginLimit + 1
    /\ lgn' = [lgn EXCEPT ![r] =
          [@ EXCEPT !.pc = "done",
                    !.resp = Response(HTTP_429_TOO_MANY_REQUESTS,
                                      "Rate limit exceeded: 3 per 1 minute",
                                      {}, NoLoginBody)]]
    /\ UNCHANGED <<users, sessions, actions, action_seq, now, upl, issued,
                   gate, rejections>>

\* the limiter's window ends
WindowExpires ==
    /\ hits > 0
    /\ hits' = 0
    /\ UNCHANGED <<users, sessions, actions, action_seq, now, upl, lgn,
                   issued, gate, rejections>>

\* lines 41-54: the code check, encrypt_phone and the SELECT by
\* phone_number
login(r, phone, code) ==
    /\ lgn[r].pc = "idle"
    /\ hits < LoginLimit
    /\ hits' = hits + 1
    /\ LET encrypted_phone == encrypt_phone(phone)
           found == { u \in users : u.phone_number = encrypted_phone }
       IN  lgn' = [lgn EXCEPT ![r] =
             IF ~CodeMatches(code)
             THEN [@ EXCEPT !.pc = "done", !.entered = TRUE,
                            !.phone = phone, !.code = code,
                            !.resp = Response(HTTP_400_BAD_REQUEST,
                                       "wrong verification code, please re-enter",
                                       {}, NoLoginBody)]
             ELSE [@ EXCEPT !.pc = IF found = {} THEN "absent" ELSE "found",
                            !.entered = TRUE, !.phone = phone, !.code = code,
                            !.encrypted_phone = encrypted_phone,
                            !.uid = IF found = {} THEN None
                                    ELSE (CHOOSE u \in found : TRUE).uid]]
    /\ UNCHANGED <<users, sessions, actions, action_seq, now, upl, issued,
                   gate, rejections>>

\* lines 73-81: the token and the response, for the user row as
\* db.refresh read it
LoginOk(call, uid) ==
    [call EXCEPT !.pc = "done", !.uid = uid,
                 !.resp = Response(HTTP_200_OK, "", {},
                            LoginResponse(LoginToken(uid, now),
                                          UserResponse(uid, FALSE)))]

\* an exception login does not catch
LoginError(call) ==
    [call EXCEPT !.pc = "done", !.uid = None,
                 !.resp = Response(HTTP_500_INTERNAL_SERVER_ERROR,
                                   "Internal Server Error", {}, NoLoginBody)]

\* lines 56-63, db.commit(), the flush: INSERT INTO users with a uid from
\* uuid4.  It waits while another transaction holds an uncommitted row
\* with the same phone_number; a committed one is a uniqueness violation.
InsertUser(r) ==
    /\ lgn[r].pc = "absent"
    /\ ~PhoneTaken(lgn[r].encrypted_phone, OthersPendingUsers(r))
    /\ IF PhoneTaken(lgn[r].encrypted_phone, users)
       THEN lgn' = [lgn EXCEPT ![r] = LoginError(@)]
       ELSE \E uid \in UUIDs :
               /\ \A u \in users \cup OthersPendingUsers(r) : u.uid # uid
               /\ lgn' = [lgn EXCEPT ![r] =
                            [@ EXCEPT !.pc = "inserted", !.uid = uid]]
    /\ UNCHANGED <<users, sessions, actions, action_seq, now, hits, upl,
                   issued, gate, rejections>>

\* lines 63-64 and 73-81: the COMMIT of the new user, db.refresh, the token
CommitUser(r) ==
    /\ lgn[r].pc = "inserted"
    /\ users' = users \cup
                  {Users(lgn[r].uid, lgn[r].encrypted_phone, now)}
    /\ lgn' = [lgn EXCEPT ![r] = LoginOk(@, lgn[r].uid)]
    /\ UNCHANGED <<sessions, actions, action_seq, now, hits, upl, issued,
                   gate, rejections>>

\* lines 65-69 and 73-81: UPDATE users SET last_login_at with its COMMIT,
\* db.refresh, the token
UpdateLastLogin(r) ==
    /\ lgn[r].pc = "found"
    /\ users' = { IF u.uid = lgn[r].uid
                  THEN [u EXCEPT !.last_login_at = now] ELSE u : u \in users }
    /\ lgn' = [lgn EXCEPT ![r] = LoginOk(@, lgn[r].uid)]
    /\ UNCHANGED <<sessions, actions, action_seq, now, hits, upl, issued,
                   gate, rejections>>

\* the response is sent; the worker takes the next request
Respond(r) ==
    /\ lgn[r].pc = "done"
    /\ lgn' = [lgn EXCEPT ![r] = NoLogin]
    /\ UNCHANGED <<users, sessions, actions, action_seq, now, hits, upl,
                   issued, gate, rejections>>

\* the clock advances by d ticks: by single ticks, at most limit of them,
\* or at once by the default lifetime of a token
Advance(d, limit) ==
    /\ IF d = 1 THEN now % DefaultTtl < limit ELSE now < DefaultTtl
    /\ now' = now + d
    /\ UNCHANGED <<users, sessions, actions, action_seq, hits, upl, lgn,
                   issued, gate, rejections>>

(***************************************************************************)
(* The gate and the token codec on their own: tokens are made, time        *)
(* passes, and requests present an Authorization header.                   *)
(***************************************************************************)
NoGate ==
    [seen |-> FALSE, authorization |-> NoHeader, at |-> 0,
     result |-> Raise(NoException)]

\* what a caller passes as data: a user's uid, a subject that is no UUID,
\* no subject
TokenData ==
    { [sub |-> UuidStr("U1")], [sub |-> "not-a-uuid"], [sub |-> None] }

\* None, one second, one second and a tick
ExpiresDeltas == { {}, {TicksPerSecond}, {TicksPerSecond + 1} }

\* create_access_token is called; issued remembers when and for how long
IssueToken(data, expires_delta) ==
    /\ Cardinality(issued) < MaxIssued
    /\ issued' = issued \cup
         { [token |-> create_access_token(data, expires_delta, now),
            t0 |-> now,
            ttl |-> IF expires_delta = {} THEN DefaultTtl
                    ELSE CHOOSE d \in expires_delta : TRUE] }
    /\ UNCHANGED <<users, sessions, actions, action_seq, now, hits, upl, lgn,
                   gate, rejections>>

\* a token signed with another key
Forged ==
    jwt_encode([sub |-> UuidStr("U1"), exp |-> DefaultTtl],
               "not-the-secret-key", ALGORITHM)

\* the Authorization headers a request may carry
Presented ==
    {NoHeader, Bearer(Garbage), Bearer(Forged)}
    \cup { Bearer(i.token) : i \in issued }
    \cup { [present |-> TRUE, scheme |-> sch, credentials |-> i.token] :
             sch \in {"bearer", "Basic"}, i \in issued }

\* a request reaches get_current_user
Authenticate(authorization) ==
    /\ LET result == get_current_user(authorization, now)
       IN  /\ gate' = [seen |-> TRUE, authorization |-> authorization,
                       at |-> now, result |-> result]
           /\ rejections' = IF result.ok THEN rejections
                            ELSE rejections \cup {result.exc}
    /\ UNCHANGED <<users, sessions, actions, action_seq, now, hits, upl, lgn,
                   issued>>

\* both users have logged in at time 0; no upload has been received
Init ==
    /\ users = { Users(u, encrypt_phone(PhoneOf(u)), 0) : u \in UUIDs }
    /\ sessions = {}
    /\ actions = {}
    /\ action_seq = 0
    /\ now = 0
    /\ hits = 0
    /\ upl = [r \in Reqs |-> NoUpload]
    /\ lgn = [r \in Reqs |-> NoLogin]
    /\ issued = {}
    /\ gate = NoGate
    /\ rejections = {}

Next ==
    \E r \in Reqs :
        \/ \E authorization \in AuthorizationsOf(r), raw \in RawBodiesOf(r) :
              sync_upload(r, authorization, raw)
        \/ FlushSessionLog(r)
        \/ FlushPhotoActions(r)
        \/ Commit(r)
        \/ ConnectionLost(r)

Spec == Init /\ [][Next]_vars

\* an empty store; no login has been received
InitLogin ==
    /\ users = {}
    /\ sessions = {}
    /\ actions = {}
    /\ action_seq = 0
    /\ now = 0
    /\ hits = 0
    /\ upl = [r \in Reqs |-> NoUpload]
    /\ lgn = [r \in Reqs |-> NoLogin]
    /\ issued = {}
    /\ gate = NoGate
    /\ rejections = {}

NextLogin ==
    \/ \E r \in Reqs :
          \/ \E phone \in Phones, code \in Codes : login(r, phone, code)
          \/ RateLimited(r)
          \/ InsertUser(r)
          \/ CommitUser(r)
          \/ UpdateLastLogin(r)
          \/ Respond(r)
    \/ WindowExpires
    \/ Advance(1, MaxLoginTicks)

SpecLogin == InitLogin /\ [][NextLogin]_vars

NextAuth ==
    \/ \E data \in TokenData, expires_delta \in ExpiresDeltas :
          IssueToken(data, expires_delta)
    \/ \E authorization \in Presented : Authenticate(authorization)
    \/ \E d \in {1, DefaultTtl} : Advance(d, MaxTicks)

SpecAuth == InitLogin /\ [][NextAuth]_vars

(***************************************************************************)
(* Properties of sync_upload, under Spec.                                  *)
(***************************************************************************)
Range(f) == { f[i] : i \in DOMAIN f }

Succeeded(r) ==
    upl[r].pc = "done" /\ upl[r].resp.status_code = HTTP_200_OK

\* the call went past the gate and the validation of its body
Staged(r) == upl[r].uid # None

\* the rows of sync_photo_actions whose action_id call r was given
StoredActionsOf(r) == { a \in actions : a.action_id \in Range(upl[r].ids) }

StoredSessionsOf(r) ==
    { s \in sessions : s.session_id = upl[r].body.session_id }

\* how many of acts have action_type 1
Deletes(acts) == Cardinality({ i \in 1..Len(acts) : acts[i].action_type = 1 })

\* the session row the call's request asks for
ExpectedSession(r) ==
    [session_id |-> upl[r].body.session_id,
     uid |-> ParseUUID(upl[r].authorization.credentials.claims.sub),
     mode |-> upl[r].body.mode,
     deleted_count |-> Deletes(upl[r].body.actions),
     saved_bytes |-> 0, start_time |-> None, device_id |-> None]

\* C1: the store holds the session row and all the action rows of every
\* upload that succeeded and nothing else: no row of a call that was
\* refused, that failed or that has not committed yet, in any state.
C1_Atomicity ==
    /\ sessions = { ExpectedSession(r) : r \in { q \in Reqs : Succeeded(q) } }
    /\ actions = UNION { StoredActionsOf(r) : r \in { q \in Reqs : Succeeded(q) } }
    /\ \A r \in Reqs :
          IF Succeeded(r)
          THEN /\ Cardinality(StoredActionsOf(r)) = Len(upl[r].body.actions)
               /\ ExpectedSession(r) \in sessions
          ELSE StoredActionsOf(r) = {}

\* C1 witness: one upload failed in the store after rows of its batch had
\* been inserted (their action_ids are used up and no row has them), and
\* another was refused by the validation
C1_Witness ==
    \E r, q \in Reqs :
        /\ upl[r].pc = "done" /\ upl[r].e = DataError
        /\ upl[r].resp.status_code = HTTP_500_INTERNAL_SERVER_ERROR
        /\ Cardinality(actions) < action_seq
        /\ upl[q].pc = "done"
        /\ upl[q].resp.status_code = HTTP_422_UNPROCESSABLE_ENTITY

\* C2: of two calls with the same session_id at most one succeeds; once one
\* has, the other fails, the store holds exactly one session row with that
\* session_id, the row of the call that succeeded (its uid, mode and
\* deleted_count), and no action row of the failed call.
C2_ResubmitFails ==
    \A r, q \in Reqs :
        ( /\ r # q /\ Succeeded(r) /\ upl[q].pc = "done" /\ Staged(q)
          /\ upl[q].body.session_id = upl[r].body.session_id )
        => /\ upl[q].resp.status_code # HTTP_200_OK
           /\ StoredSessionsOf(r) = {ExpectedSession(r)}
           /\ \A a \in actions :
                 \E p \in Reqs \ {q} : Succeeded(p) /\ a \in StoredActionsOf(p)

\* C2 witness: a call with the session_id of a committed session, another
\* user, another mode and another number of deletes, ended with the
\* store's uniqueness violation
C2_Witness ==
    \E r, q \in Reqs :
        /\ r # q /\ Succeeded(r) /\ upl[q].pc = "done"
        /\ upl[q].e = UniqueViolation
        /\ upl[q].body.session_id = upl[r].body.session_id
        /\ upl[q].uid # upl[r].uid
        /\ upl[q].body.mode # upl[r].body.mode
        /\ Deletes(upl[q].body.actions) # Deletes(upl[r].body.actions)
        /\ upl[q].body.actions # <<>>

\* C7: an upload that succeeded with N actions has one session row with
\* its session_id and N action rows of its own in the store, the i-th with
\* the authenticated uid and the md5, action_type and action_source of the
\* i-th action sent, and its response says synced_count = N; the tables
\* hold one session row per such upload and as many action rows as these
\* uploads sent.
C7_SuccessAddsBatch ==
    /\ \A r \in Reqs :
          Succeeded(r) =>
            LET acts == upl[r].body.actions
                uid == ParseUUID(upl[r].authorization.credentials.claims.sub)
            IN  /\ upl[r].resp.body = SyncResponse("ok", Len(acts))
                /\ Cardinality(StoredSessionsOf(r)) = 1
                /\ Len(upl[r].ids) = Len(acts)
                /\ Cardinality(StoredActionsOf(r)) = Len(acts)
                /\ \A i \in 1..Len(acts) :
                      [action_id |-> upl[r].ids[i], uid |-> uid,
                       photo_md5 |-> acts[i].md5,
                       action_type |-> acts[i].action_type,
                       action_source |-> acts[i].action_source] \in actions
    /\ \A r, q \in Reqs :
          (r # q /\ Succeeded(r) /\ Succeeded(q))
          => Range(upl[r].ids) \cap Range(upl[q].ids) = {}
    /\ Cardinality(sessions) = Cardinality({ r \in Reqs : Succeeded(r) })
    /\ actions = UNION { StoredActionsOf(r) : r \in { q \in Reqs : Succeeded(q) } }

\* C7 witness: two uploads succeeded, one with MaxActions actions, among
\* them one from iOS, one with none
C7_Witness ==
    \E r, q \in Reqs :
        /\ r # q /\ Succeeded(r) /\ Succeeded(q)
        /\ Len(upl[r].body.actions) = MaxActions
        /\ \E i \in 1..MaxActions : upl[r].body.actions[i].action_source = "IOS"
        /\ upl[q].body.actions = <<>>
        /\ upl[q].uid # upl[r].uid

\* C8: every session row of the store has the deleted_count that is the
\* number of actions with action_type 1 in the batch of the upload that
\* created it.
C8_DeletedCount ==
    \A s \in sessions :
        \E r \in Reqs :
            /\ Succeeded(r)
            /\ upl[r].body.session_id = s.session_id
            /\ s.deleted_count =
                 Cardinality({ i \in 1..Len(upl[r].body.actions) :
                                 upl[r].body.actions[i].action_type = 1 })

\* C8 witness: a session row of a batch with some deletes and some keeps,
\* beside one of a batch with deletes only
C8_Witness ==
    \E s, t \in sessions :
        /\ s.deleted_count = 1
        /\ \E r \in Reqs : /\ Succeeded(r)
                           /\ upl[r].body.session_id = s.session_id
                           /\ Len(upl[r].body.actions) = 2
        /\ t.deleted_count = 1
        /\ \E r \in Reqs : /\ Succeeded(r)
                           /\ upl[r].body.session_id = t.session_id
                           /\ Len(upl[r].body.actions) = 1

\* a failure that no other upload causes: the connection was lost, or the
\* batch holds a value the store refuses
OwnFailure(r) == upl[r].e \in {OperationalError, DataError}

\* C9: two uploads of one user with different session_ids, which no third
\* call shares, both succeed whatever the order of their steps, unless one
\* fails on its own (lost connection, value out of range); then the store
\* holds both session rows and all action rows of both.
C9_ConcurrentUploads ==
    \A r, q \in Reqs :
        ( /\ r # q
          /\ upl[r].pc = "done" /\ upl[q].pc = "done"
          /\ Staged(r) /\ Staged(q)
          /\ upl[r].uid = upl[q].uid
          /\ upl[r].body.session_id # upl[q].body.session_id
          /\ \A p \in Reqs \ {r, q} :
                upl[p].body.session_id \notin
                    {upl[r].body.session_id, upl[q].body.session_id}
          /\ ~OwnFailure(r) /\ ~OwnFailure(q) )
        => /\ Succeeded(r) /\ Succeeded(q)
           /\ {ExpectedSession(r), ExpectedSession(q)} \subseteq sessions
           /\ Cardinality(StoredActionsOf(r) \cup StoredActionsOf(q))
                = Len(upl[r].body.actions) + Len(upl[q].body.actions)

\* C9 witness: both uploads of one user succeeded, and the one that arrived
\* later had its action rows inserted first
C9_Witness ==
    /\ Succeeded("r1") /\ Succeeded("r2")
    /\ upl["r1"].uid = upl["r2"].uid
    /\ upl["r1"].body.session_id # upl["r2"].body.session_id
    /\ upl["r1"].ids # <<>> /\ upl["r2"].ids # <<>>
    /\ upl["r2"].ids[1] < upl["r1"].ids[1]

\* an upload that ended in the handler's except branch (lines 73-79)
PersistenceFailed(r) == upl[r].pc = "done" /\ upl[r].e # None

\* the detail is the raw text of the persistence error, bare or after a
\* fixed message
CarriesRawError(detail, e) ==
    \E prefix \in {"", "sync failed, please retry later: "} :
        detail = prefix \o e

\* C11: every upload that fails in the store is answered with one generic
\* server error: status 500, a detail without the raw text of the
\* persistence error, and hence the same response whatever the reason of
\* the failure (duplicate session_id, lost connection, refused value).
C11_GenericSyncFailed ==
    /\ \A r \in Reqs :
          PersistenceFailed(r)
          => /\ upl[r].resp.status_code = HTTP_500_INTERNAL_SERVER_ERROR
             /\ ~CarriesRawError(upl[r].resp.detail, upl[r].e)
    /\ \A r, q \in Reqs :
          (PersistenceFailed(r) /\ PersistenceFailed(q))
          => upl[r].resp = upl[q].resp

(***************************************************************************)
(* Properties of login, under SpecLogin.                                   *)
(***************************************************************************)
\* login ran for the request (the limiter let it through) and has ended
LoginDone(r) == lgn[r].pc = "done" /\ lgn[r].entered

UsersOfPhone(phone) ==
    { u \in users : u.phone_number = encrypt_phone(phone) }

\* C3: no two user rows share a phone_number, and once a login with the
\* right code has ended, in whatever order the steps of the logins ran,
\* there is exactly one user row with its phone.
C3_OneUserPerPhone ==
    /\ \A u, v \in users : u.phone_number = v.phone_number => u = v
    /\ \A r \in Reqs :
          (LoginDone(r) /\ lgn[r].code = "1234")
          => Cardinality(UsersOfPhone(lgn[r].phone)) = 1

\* C3 witness: two logins with one phone both found no user; one created
\* it, the other ran into the unique constraint
C3_Witness ==
    /\ LoginDone("r1") /\ LoginDone("r2")
    /\ lgn["r1"].phone = lgn["r2"].phone
    /\ lgn["r1"].resp.status_code = HTTP_200_OK
    /\ lgn["r2"].resp.status_code = HTTP_500_INTERNAL_SERVER_ERROR
    /\ Cardinality(users) = 1

\* C4: every login with the right code ends with 200 and a token for the
\* one user of its phone, also when another login with that phone runs
\* beside it: the collision on phone_number never fails the login.
C4_RaceFreeLogin ==
    \A r \in Reqs :
        (LoginDone(r) /\ lgn[r].code = "1234")
        => /\ lgn[r].resp.status_code = HTTP_200_OK
           /\ \E u \in UsersOfPhone(lgn[r].phone) :
                 /\ lgn[r].resp.body.user.uid = u.uid
                 /\ lgn[r].resp.body.token.claims.sub = UuidStr(u.uid)

\* C10: a step in which login is entered with a code that does not match
\* ends the request with 400 and no token and leaves the users table as it
\* was, whether or not the phone has a user.
C10_WrongCode ==
    [][ \A r \in Reqs :
          ( /\ lgn[r].pc = "idle" /\ lgn'[r].entered
            /\ lgn'[r].code # "1234" )
          => /\ lgn'[r].pc = "done"
             /\ lgn'[r].resp.status_code = HTTP_400_BAD_REQUEST
             /\ lgn'[r].resp.body = NoLoginBody
             /\ users' = users ]_vars

\* C10 witness: a login with a wrong code has ended with 400 for a phone
\* whose user was last seen before now, and one for a phone without user
C10_Witness ==
    /\ LoginDone("r1") /\ LoginDone("r2")
    /\ lgn["r1"].code = "0000" /\ lgn["r2"].code = "0000"
    /\ lgn["r1"].resp.status_code = HTTP_400_BAD_REQUEST
    /\ lgn["r2"].resp.status_code = HTTP_400_BAD_REQUEST
    /\ \E u \in UsersOfPhone(lgn["r1"].phone) : u.last_login_at < now
    /\ UsersOfPhone(lgn["r2"].phone) = {}

(***************************************************************************)
(* Properties of the gate and the token codec, under SpecAuth.             *)
(***************************************************************************)
\* C5: all requests that fail authentication get the same response
\* (status, detail, headers), whatever made them fail.
C5_UniformFailure == Cardinality(rejections) <= 1

\* C6: a token that create_access_token made at t0 with lifetime ttl for a
\* user is accepted, with that user's uid, at every time before t0 + ttl
\* and refused with 401 at every time from t0 + ttl on.
C6_ExpiryBoundary ==
    gate.seen =>
      \A i \in issued :
        ( /\ gate.authorization = Bearer(i.token)
          /\ i.t0 <= gate.at
          /\ ParseUUID(i.token.claims.sub) # ValueError )
        => IF gate.at < i.t0 + i.ttl
           THEN /\ gate.result.ok
                /\ gate.result.uid = ParseUUID(i.token.claims.sub)
           ELSE /\ ~gate.result.ok
                /\ gate.result.exc.status_code = HTTP_401_UNAUTHORIZED

=============================================================================
